---- MODULE Spec2Model ----
(***************************************************************************)
(* Model of server.js: the POST /analyze-soil route and its helper         *)
(* callGemini.  Each inbound request is a process that runs the handler    *)
(* synchronously up to `await callGemini(prompt)`, is suspended while the  *)
(* outbound axios call is in flight, and resumes to shape the response.    *)
(*                                                                         *)
(* A JavaScript value that may be undefined is a sequence of length 0      *)
(* (undefined / absent) or 1 (the value).                                  *)
(***************************************************************************)
EXTENDS Integers, Sequences, FiniteSets, TLC

VARIABLES
  config,     \* PORT, apiKey and GEMINI_API_URL, set when the module loads
  pc,         \* per request: idle, awaiting, settled, resumed or done
  body,       \* per request: req.body
  calls,      \* per request: the axios.post calls issued, in order
  settled,    \* per request: what the axios.post promise settled with
  carried,    \* per request: what callGemini returned or threw
  logged,     \* per request: the console.error lines it produced
  responses   \* per request: the HTTP responses sent, in order

vars == <<config, pc, body, calls, settled, carried, logged, responses>>

\* Number of inbound requests in flight at once.
NumReqs == 2

Reqs == 1 .. NumReqs

None == <<>>

Some(v) == <<v>>

IsUndefined(m) == Len(m) = 0

\* JavaScript truthiness of a possibly-undefined string: undefined and ""
\* are falsy, every other string is truthy.
FalsyStr(m) == IsUndefined(m) \/ m[1] = ""

\* a || b for a possibly-undefined string a and a string b
OrStr(m, d) == IF FalsyStr(m) THEN d ELSE m[1]

(***************************************************************************)
(* Process configuration, read once at start-up.                           *)
(***************************************************************************)
DefaultPort == 3000

GEMINI_API_URL == "https://generativelanguage.googleapis.com/v1beta/models/gemini-2.5-flash-preview-09-2025:generateContent"

\* values of process.env.PORT and process.env.GEMINI_API_KEY
\* (a port is written here as the number it denotes)
EnvPorts == {None, Some(8080)}

EnvKeys == {None, Some(""), Some("secret-key")}

\* const PORT = process.env.PORT || 3000
PORT(envPort) == IF IsUndefined(envPort) THEN DefaultPort ELSE envPort[1]

\* const apiKey = process.env.GEMINI_API_KEY || ""
apiKey(envKey) == OrStr(envKey, "")

Configs ==
  { [PORT |-> PORT(p), apiKey |-> apiKey(k), GEMINI_API_URL |-> GEMINI_API_URL] :
      p \in EnvPorts, k \in EnvKeys }

(***************************************************************************)
(* Request payloads.                                                       *)
(***************************************************************************)
NumericFields ==
  <<"temperature", "humidity", "moisture", "nitrogen",
    "phosphorus", "potassium", "ph", "rainfall">>

NumericFieldSet == { NumericFields[i] : i \in 1 .. Len(NumericFields) }

RequiredFields == NumericFieldSet \cup {"cropName"}

\* a numeric field is absent, the falsy-but-defined 0, or a positive reading
NumVals == {None, Some(0), Some(25)}

CropVals == {None, Some(""), Some("rice"), Some("wheat")}

Payloads ==
  [temperature : NumVals, humidity : NumVals, moisture : NumVals,
   nitrogen : NumVals, phosphorus : NumVals, potassium : NumVals,
   ph : NumVals, rainfall : NumVals, cropName : CropVals]

\* req.body after express.json(): a parsed object, or undefined when the
\* body parser left it unset
AllBodies == {None} \cup { Some(p) : p \in Payloads }

FullPayload(n, crop) ==
  [temperature |-> Some(n), humidity |-> Some(n), moisture |-> Some(n),
   nitrogen |-> Some(n), phosphorus |-> Some(n), potassium |-> Some(n),
   ph |-> Some(n), rainfall |-> Some(n), cropName |-> crop]

\* payloads exchanged when several requests are in flight
SmallBodies ==
  { Some(FullPayload(25, Some("rice"))),
    Some(FullPayload(0, Some("wheat"))),
    Some([FullPayload(25, Some("rice")) EXCEPT !.ph = None]),
    Some(FullPayload(25, Some(""))),
    None }

(***************************************************************************)
(* Validation and prompt construction (handler, before the await).         *)
(***************************************************************************)
MissingFieldsMsg == "Missing required fields in the request body."

DestructureMsg == "Cannot destructure property 'temperature' of 'req.body' as it is undefined."

\* variant: the check of ph is left out of the condition
MissingRequired_SkipsPh(p) ==
  \/ \E f \in NumericFieldSet \ {"ph"} : IsUndefined(p[f])
  \/ FalsyStr(p.cropName)

\* variant: the numeric fields are tested for truthiness (!field)
MissingRequired_Truthiness(p) ==
  \/ \E f \in NumericFieldSet : IsUndefined(p[f]) \/ p[f][1] = 0
  \/ FalsyStr(p.cropName)

\* the condition of the `if` at the head of the handler: each numeric field
\* is compared with undefined, cropName is tested for truthiness
MissingRequired(p) ==
  \/ \E f \in NumericFieldSet : IsUndefined(p[f])
  \/ FalsyStr(p.cropName)

Digits == <<"0", "1", "2", "3", "4", "5", "6", "7", "8", "9">>

RECURSIVE NumToStr(_)
\* template-literal conversion of a non-negative integer to its decimal text
NumToStr(n) ==
  IF n < 10 THEN Digits[n + 1]
  ELSE NumToStr(n \div 10) \o Digits[(n % 10) + 1]

\* ${v} for a possibly-undefined number or string
NumSlot(m) == IF IsUndefined(m) THEN "undefined" ELSE NumToStr(m[1])

StrSlot(m) == IF IsUndefined(m) THEN "undefined" ELSE m[1]

\* the template literal: the fixed text with its ten interpolation slots,
\* in the order in which they occur in the template
BuildPrompt(p) ==
  [template |-> "soil-and-crop-advisor",
   slots |-> <<StrSlot(p.cropName)>>
             \o [i \in 1 .. Len(NumericFields) |-> NumSlot(p[NumericFields[i]])]
             \o <<StrSlot(p.cropName)>>]

\* the arguments of axios.post in callGemini
GeminiRequest(prompt) ==
  [url |-> <<config.GEMINI_API_URL, "?key=", config.apiKey>>,
   data |-> [contents |-> <<[parts |-> <<[text |-> prompt]>>]>>],
   headers |-> [ContentType |-> "application/json"]]

(***************************************************************************)
(* Upstream outcomes: what axios.post settles with.                        *)
(***************************************************************************)
Part(t) == [text |-> t]

Content(parts) == [parts |-> parts]

Candidate(content) == [content |-> content]

Data(cands) == Some([candidates |-> cands])

TextData(t) == Data(Some(<<Candidate(Some(Content(Some(<<Part(Some(t))>>))))>>))

\* bodies in which candidates[0].content.parts[0].text is absent at some level
AbsentDatas ==
  { None,
    Data(None),
    Data(Some(<<>>)),
    Data(Some(<<Candidate(None)>>)),
    Data(Some(<<Candidate(Some(Content(None)))>>)),
    Data(Some(<<Candidate(Some(Content(Some(<<>>))))>>)),
    Data(Some(<<Candidate(Some(Content(Some(<<Part(None)>>))))>>)) }

Texts == {"", "Yes, suitable.", "Marginal."}

\* bodies that carry a text at that path, some with further parts and candidates
TextDatas ==
  { TextData(t) : t \in Texts }
  \cup { Data(Some(<<Candidate(Some(Content(Some(<<Part(Some("Yes, suitable.")),
                                                   Part(Some("Marginal."))>>)))),
                     Candidate(Some(Content(Some(<<Part(Some("No."))>>))))>>)),
         Data(Some(<<Candidate(Some(Content(Some(<<Part(Some("")),
                                                   Part(Some("Marginal."))>>))))>>)) }

Resolve(data) == [kind |-> "resolve", response |-> [status |-> 200, data |-> data]]

Reject(err) == [kind |-> "reject", error |-> err]

NetworkError(msg) == [message |-> msg, response |-> None]

\* axios rejects a non-2xx response with an error that carries the response
StatusError(status, data) ==
  [message |-> "Request failed with status code " \o NumToStr(status),
   response |-> Some([status |-> status, data |-> data])]

ErrBody(msg) == Some([error |-> Some([message |-> msg])])

QuotaMsg == "You exceeded your current quota."

ErrorDatas ==
  { None, Some([error |-> None]), ErrBody(None), ErrBody(Some("")), ErrBody(Some(QuotaMsg)) }

Errors ==
  { NetworkError("Network Error"), NetworkError("timeout of 0ms exceeded") }
  \cup { StatusError(429, d) : d \in ErrorDatas }
  \cup { StatusError(s, d) : s \in {400, 500, 503}, d \in {None, ErrBody(Some("backend error"))} }

AllOutcomes ==
  { Resolve(d) : d \in AbsentDatas \cup TextDatas } \cup { Reject(e) : e \in Errors }

SmallOutcomes ==
  { Resolve(TextData("Yes, suitable.")),
    Resolve(Data(Some(<<>>))),
    Reject(StatusError(429, ErrBody(Some(QuotaMsg)))),
    Reject(StatusError(500, None)),
    Reject(NetworkError("Network Error")) }

(***************************************************************************)
(* Response shaping.                                                       *)
(***************************************************************************)
FallbackText == "No response from Gemini."

RateLimitMsg == "Gemini API rate limit exceeded. (RESOURCE_EXHAUSTED)"

GenericQuotaMsg == "Quota exceeded. Please wait 1 minute and try again."

InternalErrorMsg == "Internal Server Error. Please check your request or server logs."

\* xs?.[0] for a possibly-undefined array
First(xs) == IF IsUndefined(xs) \/ Len(xs[1]) = 0 THEN None ELSE Some(xs[1][1])

\* variant: the part is read at index 1 instead of index 0
TextPath_SecondPart(data) ==
  LET cand == First(IF IsUndefined(data) THEN None ELSE data[1].candidates)
      content == IF IsUndefined(cand) THEN None ELSE cand[1].content
      parts == IF IsUndefined(content) THEN None ELSE content[1].parts
      part == IF IsUndefined(parts) \/ Len(parts[1]) < 2 THEN None ELSE Some(parts[1][2])
  IN IF IsUndefined(part) THEN None ELSE part[1].text

\* aiRes.data?.candidates?.[0]?.content?.parts?.[0]?.text
TextPath(data) ==
  LET cand == First(IF IsUndefined(data) THEN None ELSE data[1].candidates)
      content == IF IsUndefined(cand) THEN None ELSE cand[1].content
      part == First(IF IsUndefined(content) THEN None ELSE content[1].parts)
  IN IF IsUndefined(part) THEN None ELSE part[1].text

\* variant: the fallback is the empty string
AiText_NoFallback(data) == OrStr(TextPath(data), "")

\* const aiText = <text path> || "No response from Gemini."
AiText(data) == OrStr(TextPath(data), FallbackText)

\* res.json({ success: true, crop: cropName, analysis: aiText })
SuccessResponse(cropName, aiText) ==
  [status |-> 200, body |-> [success |-> TRUE, crop |-> cropName, analysis |-> aiText]]

ValidationResponse == [status |-> 400, body |-> [error |-> MissingFieldsMsg]]

\* error.response?.status
ErrStatus(error) ==
  IF IsUndefined(error.response) THEN None ELSE Some(error.response[1].status)

\* error.response?.data?.error?.message
ErrQuotaMessage(error) ==
  LET data == IF IsUndefined(error.response) THEN None ELSE error.response[1].data
      err == IF IsUndefined(data) THEN None ELSE data[1].error
  IN IF IsUndefined(err) THEN None ELSE err[1].message

\* variant: no 429 branch, every failure is answered 500
CatchBlock_No429(error) ==
  <<[status |-> 500,
     body |-> [error |-> InternalErrorMsg, message |-> error.message]]>>

\* variant: the 500 body carries the upstream quota message instead of
\* error.message
CatchBlock_QuotaMessage(error) ==
  IF ErrStatus(error) = Some(429)
  THEN <<[status |-> 429,
          body |-> [error |-> RateLimitMsg,
                    message |-> OrStr(ErrQuotaMessage(error), GenericQuotaMsg)]]>>
  ELSE <<[status |-> 500,
          body |-> [error |-> InternalErrorMsg,
                    message |-> OrStr(ErrQuotaMessage(error), GenericQuotaMsg)]]>>

\* variant: the 429 branch does not return, so the 500 response follows it
CatchBlock_NoReturn(error) ==
  (IF ErrStatus(error) = Some(429)
   THEN <<[status |-> 429,
           body |-> [error |-> RateLimitMsg,
                     message |-> OrStr(ErrQuotaMessage(error), GenericQuotaMsg)]]>>
   ELSE <<>>)
  \o <<[status |-> 500,
        body |-> [error |-> InternalErrorMsg, message |-> error.message]]>>

\* the catch block of the handler: the responses it sends, in order
CatchBlock(error) ==
  IF ErrStatus(error) = Some(429)
  THEN <<[status |-> 429,
          body |-> [error |-> RateLimitMsg,
                    message |-> OrStr(ErrQuotaMessage(error), GenericQuotaMsg)]]>>
  ELSE <<[status |-> 500,
          body |-> [error |-> InternalErrorMsg, message |-> error.message]]>>

\* console.error argument in callGemini: err.response?.data || err.message
LogDetail(err) ==
  IF ~IsUndefined(err.response) /\ ~IsUndefined(err.response[1].data)
  THEN [data |-> err.response[1].data[1]]
  ELSE [message |-> err.message]

\* destructuring an undefined req.body throws this inside the try block
DestructureError == [message |-> DestructureMsg, response |-> None]

(***************************************************************************)
(* State machine.                                                          *)
(***************************************************************************)
Init ==
  /\ config \in Configs
  /\ pc = [r \in Reqs |-> "idle"]
  /\ body = [r \in Reqs |-> None]
  /\ calls = [r \in Reqs |-> <<>>]
  /\ settled = [r \in Reqs |-> None]
  /\ carried = [r \in Reqs |-> None]
  /\ logged = [r \in Reqs |-> <<>>]
  /\ responses = [r \in Reqs |-> <<>>]

\* variant: the 400 branch does not return, so the handler goes on to build
\* the prompt and call the upstream
AnalyzeSoil_NoReturn(r, reqBody) ==
  /\ pc[r] = "idle"
  /\ body' = [body EXCEPT ![r] = reqBody]
  /\ IF IsUndefined(reqBody)
     THEN /\ responses' = [responses EXCEPT ![r] = @ \o CatchBlock(DestructureError)]
          /\ pc' = [pc EXCEPT ![r] = "done"]
          /\ UNCHANGED calls
     ELSE /\ responses' = [responses EXCEPT ![r] =
                 IF MissingRequired(reqBody[1]) THEN Append(@, ValidationResponse) ELSE @]
          /\ calls' = [calls EXCEPT ![r] = Append(@, GeminiRequest(BuildPrompt(reqBody[1])))]
          /\ pc' = [pc EXCEPT ![r] = "awaiting"]
  /\ UNCHANGED <<config, settled, carried, logged>>

\* The handler from its entry to its first suspension: destructuring,
\* validation, prompt construction and the axios.post issued by callGemini.
AnalyzeSoil(r, reqBody) ==
  /\ pc[r] = "idle"
  /\ body' = [body EXCEPT ![r] = reqBody]
  /\ IF IsUndefined(reqBody)
     THEN /\ responses' = [responses EXCEPT ![r] = @ \o CatchBlock(DestructureError)]
          /\ pc' = [pc EXCEPT ![r] = "done"]
          /\ UNCHANGED calls
     ELSE IF MissingRequired(reqBody[1])
     THEN /\ responses' = [responses EXCEPT ![r] = Append(@, ValidationResponse)]
          /\ pc' = [pc EXCEPT ![r] = "done"]
          /\ UNCHANGED calls
     ELSE /\ calls' = [calls EXCEPT ![r] = Append(@, GeminiRequest(BuildPrompt(reqBody[1])))]
          /\ pc' = [pc EXCEPT ![r] = "awaiting"]
          /\ UNCHANGED responses
  /\ UNCHANGED <<config, settled, carried, logged>>

\* The upstream settles the outbound call of request r.
AxiosSettle(r, outcome) ==
  /\ pc[r] = "awaiting"
  /\ settled' = [settled EXCEPT ![r] = Some(outcome)]
  /\ pc' = [pc EXCEPT ![r] = "settled"]
  /\ UNCHANGED <<config, body, calls, carried, logged, responses>>

\* variant: a failed call is issued once more before the error is re-thrown
CallGeminiResume_Retry(r) ==
  /\ pc[r] = "settled"
  /\ LET o == settled[r][1] IN
       IF o.kind = "resolve"
       THEN /\ carried' = [carried EXCEPT ![r] = Some([kind |-> "return", response |-> o.response])]
            /\ pc' = [pc EXCEPT ![r] = "resumed"]
            /\ UNCHANGED <<logged, calls>>
       ELSE IF Len(calls[r]) < 2
       THEN /\ calls' = [calls EXCEPT ![r] = Append(@, calls[r][1])]
            /\ pc' = [pc EXCEPT ![r] = "awaiting"]
            /\ UNCHANGED <<logged, carried>>
       ELSE /\ logged' = [logged EXCEPT ![r] = Append(@, LogDetail(o.error))]
            /\ carried' = [carried EXCEPT ![r] = Some([kind |-> "throw", error |-> o.error])]
            /\ pc' = [pc EXCEPT ![r] = "resumed"]
            /\ UNCHANGED calls
  /\ UNCHANGED <<config, body, settled, responses>>

\* callGemini after its await: return the response, or log and re-throw.
CallGeminiResume(r) ==
  /\ pc[r] = "settled"
  /\ LET o == settled[r][1] IN
       IF o.kind = "resolve"
       THEN /\ carried' = [carried EXCEPT ![r] = Some([kind |-> "return", response |-> o.response])]
            /\ UNCHANGED logged
       ELSE /\ logged' = [logged EXCEPT ![r] = Append(@, LogDetail(o.error))]
            /\ carried' = [carried EXCEPT ![r] = Some([kind |-> "throw", error |-> o.error])]
  /\ pc' = [pc EXCEPT ![r] = "resumed"]
  /\ UNCHANGED <<config, body, calls, settled, responses>>

\* variant: cropName lives in one variable shared by all requests, so the
\* response echoes the crop of another request that has a payload
HandlerResume_SharedCrop(r) ==
  /\ pc[r] = "resumed"
  /\ LET c == carried[r][1]
         others == { q \in Reqs \ {r} : pc[q] # "idle" /\ ~IsUndefined(body[q]) }
         src == IF others = {} THEN r ELSE CHOOSE q \in others : TRUE
     IN IF c.kind = "return"
        THEN responses' = [responses EXCEPT ![r] =
               Append(@, SuccessResponse(StrSlot(body[src][1].cropName), AiText(c.response.data)))]
        ELSE responses' = [responses EXCEPT ![r] = @ \o CatchBlock(c.error)]
  /\ pc' = [pc EXCEPT ![r] = "done"]
  /\ UNCHANGED <<config, body, calls, settled, carried, logged>>

\* The handler after `await callGemini(prompt)`: text extraction and the
\* 200 response, or the catch block.
HandlerResume(r) ==
  /\ pc[r] = "resumed"
  /\ LET c == carried[r][1] IN
       IF c.kind = "return"
       THEN responses' = [responses EXCEPT ![r] =
              Append(@, SuccessResponse(body[r][1].cropName[1], AiText(c.response.data)))]
       ELSE responses' = [responses EXCEPT ![r] = @ \o CatchBlock(c.error)]
  /\ pc' = [pc EXCEPT ![r] = "done"]
  /\ UNCHANGED <<config, body, calls, settled, carried, logged>>

\* several requests in flight, their steps interleaved
Next ==
  \/ \E r \in Reqs : pc[r] = "idle" /\ \E b \in SmallBodies : AnalyzeSoil(r, b)
  \/ \E r \in Reqs : pc[r] = "awaiting" /\ \E o \in SmallOutcomes : AxiosSettle(r, o)
  \/ \E r \in Reqs : CallGeminiResume(r)
  \/ \E r \in Reqs : HandlerResume(r)

Spec == Init /\ [][Next]_vars

\* one request, every payload and every upstream outcome
NextOne ==
  \/ pc[1] = "idle" /\ \E b \in AllBodies : AnalyzeSoil(1, b)
  \/ pc[1] = "awaiting" /\ \E o \in AllOutcomes : AxiosSettle(1, o)
  \/ CallGeminiResume(1)
  \/ HandlerResume(1)

SpecOne == Init /\ [][NextOne]_vars

(***************************************************************************)
(* Vocabulary of the properties.                                           *)
(***************************************************************************)
Done(r) == pc[r] = "done"

HasPayload(r) == pc[r] # "idle" /\ ~IsUndefined(body[r])

PayloadOf(r) == body[r][1]

\* some required field is absent from the payload, or cropName is empty
Incomplete(p) ==
  \/ \E f \in RequiredFields : p[f] = None
  \/ p.cropName = Some("")

Resolved(r) == ~IsUndefined(settled[r]) /\ settled[r][1].kind = "resolve"

Rejected(r) == ~IsUndefined(settled[r]) /\ settled[r][1].kind = "reject"

UpstreamData(r) == settled[r][1].response.data

UpstreamError(r) == settled[r][1].error

\* the upstream failure carried HTTP status 429
Is429(e) == e.response # None /\ e.response[1].status = 429

\* the body has a text value at candidates[0].content.parts[0].text
HasText(d) ==
  /\ d # None
  /\ d[1].candidates # None
  /\ Len(d[1].candidates[1]) >= 1
  /\ d[1].candidates[1][1].content # None
  /\ d[1].candidates[1][1].content[1].parts # None
  /\ Len(d[1].candidates[1][1].content[1].parts[1]) >= 1
  /\ d[1].candidates[1][1].content[1].parts[1][1].text # None

UpstreamText(d) == d[1].candidates[1][1].content[1].parts[1][1].text[1]

\* C1: a payload with a required field absent, or with an empty cropName, is
\* answered HTTP 400 with the fixed missing-fields body, whichever field it is.
C1_MissingFieldYields400 ==
  \A r \in Reqs :
    (HasPayload(r) /\ Incomplete(PayloadOf(r))) =>
      responses[r] = <<[status |-> 400,
                        body |-> [error |-> "Missing required fields in the request body."]]>>

C1_Witness ==
  \E r \in Reqs :
    /\ HasPayload(r)
    /\ \A f \in RequiredFields : (PayloadOf(r)[f] = None) <=> (f = "ph")
    /\ Len(responses[r]) = 1
    /\ responses[r][1].status = 400

\* C2: a payload with all nine fields present and a non-empty cropName passes
\* validation, whatever numeric fields are 0: its prompt is built and forwarded
\* in one outbound call and the request is never answered HTTP 400.
C2_PresenceNotTruthiness ==
  \A r \in Reqs :
    (HasPayload(r) /\ ~Incomplete(PayloadOf(r))) =>
      /\ Len(calls[r]) = 1
      /\ LET prompt == calls[r][1].data.contents[1].parts[1].text IN
           /\ Len(prompt.slots) = 10
           /\ prompt.slots[1] = PayloadOf(r).cropName[1]
           /\ prompt.slots[10] = PayloadOf(r).cropName[1]
      /\ \A i \in 1 .. Len(responses[r]) : responses[r][i].status # 400

C2_Witness ==
  \E r \in Reqs :
    /\ HasPayload(r)
    /\ \A f \in NumericFieldSet : PayloadOf(r)[f] = Some(0)
    /\ PayloadOf(r).cropName = Some("rice")
    /\ Len(calls[r]) = 1
    /\ calls[r][1].data.contents[1].parts[1].text.slots[8] = "0"

\* C3 as stated: whenever the upstream body has a text T at the path, the
\* response is 200 {success, crop, analysis: T}, for every text T.
C3_Original ==
  \A r \in Reqs :
    (Done(r) /\ Resolved(r) /\ HasText(UpstreamData(r))) =>
      responses[r] = <<[status |-> 200,
                        body |-> [success |-> TRUE,
                                  crop |-> PayloadOf(r).cropName[1],
                                  analysis |-> UpstreamText(UpstreamData(r))]]>>

\* C3: whenever the upstream body has a non-empty text T at the path, the
\* response is 200 {success: true, crop: the request's cropName, analysis: T};
\* an empty text at the path is answered with the fallback analysis instead.
C3_AnalysisIsUpstreamText ==
  \A r \in Reqs :
    (Done(r) /\ Resolved(r) /\ HasText(UpstreamData(r))) =>
      responses[r] = <<[status |-> 200,
                        body |-> [success |-> TRUE,
                                  crop |-> PayloadOf(r).cropName[1],
                                  analysis |->
                                    IF UpstreamText(UpstreamData(r)) = ""
                                    THEN "No response from Gemini."
                                    ELSE UpstreamText(UpstreamData(r))]]>>

C3_Witness ==
  \E r \in Reqs :
    /\ Done(r) /\ Resolved(r) /\ HasText(UpstreamData(r))
    /\ Len(UpstreamData(r)[1].candidates[1][1].content[1].parts[1]) = 2
    /\ UpstreamText(UpstreamData(r)) = "Yes, suitable."
    /\ responses[r][1].body.analysis = "Yes, suitable."

\* C4: when the upstream call succeeds but the text path is absent at any
\* level, the response is 200 with success = true, the request's cropName and
\* the fallback analysis.
C4_FallbackOnAbsentText ==
  \A r \in Reqs :
    (Done(r) /\ Resolved(r) /\ ~HasText(UpstreamData(r))) =>
      responses[r] = <<[status |-> 200,
                        body |-> [success |-> TRUE,
                                  crop |-> PayloadOf(r).cropName[1],
                                  analysis |-> "No response from Gemini."]]>>

C4_Witness ==
  \E r \in Reqs :
    /\ Done(r) /\ Resolved(r)
    /\ UpstreamData(r) = Data(Some(<<Candidate(Some(Content(Some(<<>>))))>>))
    /\ responses[r][1].status = 200
    /\ responses[r][1].body.analysis = FallbackText

\* C5: an upstream failure with status 429 is answered with exactly one
\* response, HTTP 429, whose body has an error field and a message that is
\* the upstream quota message when there is one and the generic text
\* otherwise; and 429 is answered only to an upstream failure with status 429.
C5_RateLimitMapsTo429 ==
  \A r \in Reqs :
    /\ (Done(r) /\ Rejected(r) /\ Is429(UpstreamError(r))) =>
         /\ Len(responses[r]) = 1
         /\ responses[r][1].status = 429
         /\ DOMAIN responses[r][1].body = {"error", "message"}
         /\ responses[r][1].body.error = "Gemini API rate limit exceeded. (RESOURCE_EXHAUSTED)"
         /\ LET m == ErrQuotaMessage(UpstreamError(r)) IN
              responses[r][1].body.message =
                IF m = None \/ m = Some("")
                THEN "Quota exceeded. Please wait 1 minute and try again."
                ELSE m[1]
    /\ \A i \in 1 .. Len(responses[r]) :
         responses[r][i].status = 429 => (Rejected(r) /\ Is429(UpstreamError(r)))

C5_Witness ==
  \E r \in Reqs :
    /\ Done(r) /\ Rejected(r) /\ Is429(UpstreamError(r))
    /\ ErrQuotaMessage(UpstreamError(r)) = Some(QuotaMsg)
    /\ responses[r][1].status = 429
    /\ responses[r][1].body.message = QuotaMsg

\* C6: an upstream failure other than status 429 (another status, or no
\* response at all) is answered HTTP 500 with the fixed error text and a
\* message equal to the failure's message.
C6_OtherFailureMapsTo500 ==
  \A r \in Reqs :
    (Done(r) /\ Rejected(r) /\ ~Is429(UpstreamError(r))) =>
      responses[r] =
        <<[status |-> 500,
           body |-> [error |-> "Internal Server Error. Please check your request or server logs.",
                     message |-> UpstreamError(r).message]]>>

C6_Witness ==
  \E r \in Reqs :
    /\ Done(r) /\ Rejected(r)
    /\ UpstreamError(r).response # None
    /\ UpstreamError(r).response[1].status = 503
    /\ UpstreamError(r).response[1].data # None
    /\ responses[r][1].status = 500
    /\ responses[r][1].body.message = "Request failed with status code 503"

\* C7: every request that reaches callGemini makes exactly one outbound call,
\* whatever the outcome; a failure is logged once and re-thrown unchanged, and
\* no second call follows.
C7_SingleUpstreamCall ==
  \A r \in Reqs :
    /\ Len(calls[r]) <= 1
    /\ (pc[r] \in {"awaiting", "settled", "resumed"}) => Len(calls[r]) = 1
    /\ settled[r] # None => Len(calls[r]) = 1
    /\ Len(logged[r]) <= 1
    /\ (carried[r] # None /\ Rejected(r)) =>
         /\ carried[r][1].kind = "throw"
         /\ carried[r][1].error = UpstreamError(r)
         /\ Len(logged[r]) = 1
    /\ (carried[r] # None /\ Resolved(r)) =>
         /\ carried[r][1].kind = "return"
         /\ Len(logged[r]) = 0

C7_Witness ==
  \E r \in Reqs :
    /\ Done(r) /\ Rejected(r)
    /\ UpstreamError(r).response = None
    /\ Len(calls[r]) = 1
    /\ logged[r] = <<[message |-> "Network Error"]>>

\* C8: a request ends with exactly one response, of status 200, 400, 429 or
\* 500, and has none before it ends: no failure escapes the handler without
\* a response and no request is answered twice.
C8_ExactlyOneResponse ==
  \A r \in Reqs :
    /\ Len(responses[r]) <= 1
    /\ Done(r) <=> Len(responses[r]) = 1
    /\ \A i \in 1 .. Len(responses[r]) : responses[r][i].status \in {200, 400, 429, 500}

C8_Witness ==
  \E r, q \in Reqs :
    /\ Done(r) /\ Done(q)
    /\ Rejected(r) /\ Is429(UpstreamError(r))
    /\ Len(responses[r]) = 1 /\ responses[r][1].status = 429
    /\ body[q] = None
    /\ Len(responses[q]) = 1 /\ responses[q][1].status = 500

\* what belongs to request r alone
Own(r) == <<pc[r], body[r], calls[r], settled[r], carried[r], logged[r], responses[r]>>

\* C9: under any interleaving a step of one request leaves every other
\* request and the configuration untouched, a 200 response echoes the
\* request's own cropName, and two finished requests with the same payload
\* and the same upstream outcome have the same response.
C9_RequestsIsolated ==
  [][ /\ config' = config
      /\ \A r, q \in Reqs : (r # q /\ Own(r)' # Own(r)) => Own(q)' = Own(q)
      /\ \A r \in Reqs :
           (Len(responses'[r]) >= 1 /\ responses'[r][1].status = 200) =>
             responses'[r][1].body.crop = body'[r][1].cropName[1]
      /\ \A r, q \in Reqs :
           (pc'[r] = "done" /\ pc'[q] = "done"
              /\ body'[r] = body'[q] /\ settled'[r] = settled'[q]) =>
             responses'[r] = responses'[q] ]_vars

C9_Witness ==
  \E r, q \in Reqs :
    /\ Done(r) /\ Done(q)
    /\ HasPayload(r) /\ PayloadOf(r).cropName = Some("rice")
    /\ HasPayload(q) /\ PayloadOf(q).cropName = Some("wheat")
    /\ Resolved(q) /\ responses[q][1].body.crop = "wheat"
    /\ Rejected(r) /\ responses[r][1].status = 500

\* C10: an outbound call is made only in a step in which the request has a
\* payload that passed validation and has no response yet; a request answered
\* HTTP 400 has made no outbound call, and none is made after a response.
C10_ValidationPrecedesCall ==
  [][ \A r \in Reqs :
        /\ calls'[r] # calls[r] =>
             /\ responses[r] = <<>> /\ responses'[r] = <<>>
             /\ body'[r] # None
             /\ ~Incomplete(body'[r][1])
        /\ \A i \in 1 .. Len(responses'[r]) :
             responses'[r][i].status = 400 => calls'[r] = <<>> ]_vars

C10_Witness ==
  \E r, q \in Reqs :
    /\ Done(r) /\ Len(responses[r]) = 1 /\ responses[r][1].status = 400
    /\ calls[r] = <<>>
    /\ Done(q) /\ Len(responses[q]) = 1 /\ responses[q][1].status = 200
    /\ Len(calls[q]) = 1

====
